---- MODULE Spec2Model ----
(***************************************************************************)
(* Plant lifecycle engine of astrobotany: Plant.refresh and the action     *)
(* handlers water, fertilize, shake, pick_petal, harvest, together with    *)
(* the lazy creation of the active plant in User.plant.                    *)
(*                                                                         *)
(* Time is the wall clock in whole seconds.  A plant record is a row of    *)
(* the store; the sequence "plants" is the table, a record's index its id. *)
(* Every handler is followed by save() in the views, so a handler's effect *)
(* is written to the row in the same step.                                 *)
(***************************************************************************)
EXTENDS Integers, Sequences, FiniteSets, TLC

VARIABLES
    now,        \* datetime.now(), seconds
    plants,     \* the Plant table: Seq of plant records
    fence,      \* User.fence_active, per user
    inv,        \* ItemSlot quantities, per user: coin, fertilizer, petal
    events,     \* the Event table restricted to PICK_PETAL events
    starved,    \* rows that some refresh() found 5 days without water
    visit_at,   \* per user, the clock of their last successful visit-watering
    session,    \* per worker, where it is in its request and its copy of the row
    steps,      \* how many calls and clock advances have happened
    last        \* the last call: its name, target, actor and pre-state

vars ==
    <<now, plants, fence, inv, events, starved, visit_at, session, steps, last>>

----------------------------------------------------------------------------
(* Bounds of the model *)

MaxPlants == 3
MaxSteps == 4
NumMutations == 1
MaxGauge == 210
MaxRaceSteps == 10

(* Program constants *)

SecondsPerDay == 86400
DeathDays == 5
FertilizerDays == 3
ShakeMultiplier == 3600
ShakeCap == 100
TerminalStage == 5
FloweringStage == 4
VisitWaterCooldown == 1800

\* An owner and a visitor; each can own plants and visit the other's.
Users == {1, 2}
None == 0
NoMutation == -1

\* Steps by which the clock advances between calls.
Deltas == {45, 15 * 60, 6 * 3600, 4 * SecondsPerDay}

\* constants.STAGE_CUTOFFS: score needed to enter each stage, stage 0..5.
STAGE_CUTOFFS ==
    <<0, 1 * SecondsPerDay, 3 * SecondsPerDay, 10 * SecondsPerDay,
      20 * SecondsPerDay, 30 * SecondsPerDay>>

Cutoff(stage) == STAGE_CUTOFFS[stage + 1]

----------------------------------------------------------------------------
(* Helpers *)

Max2(a, b) == IF a >= b THEN a ELSE b
Min2(a, b) == IF a <= b THEN a ELSE b
Max3(a, b, c) == Max2(a, Max2(b, c))
Min3(a, b, c) == Min2(a, Min2(b, c))

RECURSIVE Pow2Below(_, _)
\* The power of two p with p < n <= 2p, for n >= 2 (the binade of n).
Pow2Below(n, p) == IF 2 * p >= n THEN p ELSE Pow2Below(n, 2 * p)

\* Plant.growth_rate is the double 1 + (generation - 1) * 0.2.  The product
\* ticks * growth_rate is rounded to the nearest double before int()
\* truncates it.  halves is 2 * ticks (ticks is a multiple of 0.5 here).
\* For generations 1, 2 and 4..7 the result equals the exact floor for every
\* halves up to three days; for generation 3 the double 1.4 is 0.4 * 2^-52
\* below 1.4, and an exactly integral product N in the upper eighth of its
\* binade rounds down to the double below N, so int() yields N - 1.
\* Mutant: the ticks are truncated before the growth rate is applied.
IntTicksTruncFirst(halves, generation) ==
    ((halves \div 2) * (generation + 4)) \div 5

IntTicks(halves, generation) ==
    LET exact == (halves * (generation + 4)) \div 10
    IN  IF /\ generation = 3
           /\ (halves * 7) % 10 = 0
           /\ exact > 1
           /\ 4 * exact > 7 * Pow2Below(exact, 1)
        THEN exact - 1
        ELSE exact

\* A new row with the field defaults of the Plant model.
NewPlant(user, generation, t) ==
    [ user |-> user,
      user_active |-> user,
      created_at |-> t,
      updated_at |-> t,
      watered_at |-> t - SecondsPerDay,
      watered_at_owner |-> t,
      watered_by |-> None,
      generation |-> generation,
      score |-> 0,
      stage |-> 0,
      mutation |-> NoMutation,
      dead |-> FALSE,
      fertilized_at |-> t - 4 * SecondsPerDay,
      shaken_at |-> 0 ]

\* The rows User.active_plants selects for a user.
ActivePlants(u) == {i \in 1..Len(plants) : plants[i].user_active = u}

\* Placeholder pre-state for calls that have no target row.
NoPlant == NewPlant(None, 0, 0)

\* The threads that load, change and save a row: the hourly sweep, a request
\* for the plant page, and a request to shake the plant.
Workers == {"sweep", "view", "shaker"}

\* No request is in progress.  A worker holds its copy of the row (rec) and,
\* as history, the stored row it made the copy from (from).
Idle == [w \in Workers |-> [pc |-> "idle", rec |-> NoPlant, from |-> NoPlant]]

\* The record of a call: handler, target row, acting user, the row and the
\* inventories before the call, the number of rows and the PICK_PETAL events
\* before the call, the outcome (the kind of message returned).
Call(op, pid, actor, pre, result) ==
    [op |-> op, pid |-> pid, actor |-> actor, pre |-> pre, inv |-> inv,
     rows |-> Len(plants), events |-> events, visit_at |-> visit_at,
     result |-> result]

----------------------------------------------------------------------------
(* Plant.refresh *)

\* Mutant: the overlap is not clamped at zero.
RefreshTicksUnclamped(p, t) ==
    Min2(p.watered_at + SecondsPerDay, t) - Max2(p.watered_at, p.updated_at)

\* Mutant: the overlap ignores the previous refresh.
RefreshTicksSinceWatered(p, t) ==
    Max2(0, Min2(p.watered_at + SecondsPerDay, t) - p.watered_at)

\* Seconds of [last_updated, t] inside the watered day.
RefreshTicks(p, t) ==
    LET min_time == Max2(p.watered_at, p.updated_at)
        max_time == Min2(p.watered_at + SecondsPerDay, t)
    IN  Max2(0, max_time - min_time)

\* Mutant: the fertilizer bonus is not limited to the watered day.
RefreshBonusTicksAnyWater(p, t) ==
    Max2(0, Min2(p.fertilized_at + FertilizerDays * SecondsPerDay, t)
            - Max2(p.fertilized_at, p.updated_at))

\* Seconds of [last_updated, t] inside both the fertilizer window and the
\* watered day.
RefreshBonusTicks(p, t) ==
    LET min_time == Max3(p.fertilized_at, p.updated_at, p.watered_at)
        max_time == Min3(p.fertilized_at + FertilizerDays * SecondsPerDay,
                         p.watered_at + SecondsPerDay, t)
    IN  Max2(0, max_time - min_time)

\* ticks += bonus_ticks * 0.5; ticks *= growth_rate; ticks = int(ticks)
RefreshGain(p, t) ==
    IntTicks(2 * RefreshTicks(p, t) + RefreshBonusTicks(p, t), p.generation)

\* Mutant: one comparison instead of the loop.
EvolveOnce(stage, score) ==
    IF stage < Len(STAGE_CUTOFFS) - 1 /\ score >= Cutoff(stage + 1)
    THEN stage + 1
    ELSE stage

RECURSIVE Evolve(_, _)
\* The evolution loop: advance while the next cutoff is reached.
Evolve(stage, score) ==
    IF stage < Len(STAGE_CUTOFFS) - 1 /\ score >= Cutoff(stage + 1)
    THEN Evolve(stage + 1, score)
    ELSE stage

\* Outcomes of the mutation roll: random.random() > ((c-1)/c) ** ticks can
\* only succeed when ticks > 0, and can always fail.
MutationRolls(p, t) ==
    IF p.mutation = NoMutation /\ RefreshGain(p, t) > 0
    THEN {NoMutation} \cup (0..(NumMutations - 1))
    ELSE {NoMutation}

\* Mutant: the score is credited before the death check.
RefreshRecCreditFirst(p, t, m) ==
    LET score == p.score + RefreshGain(p, t)
    IN  IF t - p.watered_at >= DeathDays * SecondsPerDay
        THEN [p EXCEPT !.updated_at = t, !.score = score, !.dead = TRUE]
        ELSE [p EXCEPT !.updated_at = t,
                       !.score = score,
                       !.mutation = IF p.mutation = NoMutation THEN m ELSE @,
                       !.stage = Evolve(p.stage, score)]

\* Mutant: the 5 days are counted from the previous refresh.
RefreshRecDeathSinceUpdate(p, t, m) ==
    IF t - p.updated_at >= DeathDays * SecondsPerDay
    THEN [p EXCEPT !.updated_at = t, !.dead = TRUE]
    ELSE LET score == p.score + RefreshGain(p, t)
         IN  [p EXCEPT !.updated_at = t,
                       !.score = score,
                       !.mutation = IF p.mutation = NoMutation THEN m ELSE @,
                       !.stage = Evolve(p.stage, score)]

\* The record after refresh() at clock t, m being the outcome of the roll.
RefreshRec(p, t, m) ==
    IF t - p.watered_at >= DeathDays * SecondsPerDay
    THEN [p EXCEPT !.updated_at = t, !.dead = TRUE]
    ELSE LET score == p.score + RefreshGain(p, t)
         IN  [p EXCEPT !.updated_at = t,
                       !.score = score,
                       !.mutation = IF p.mutation = NoMutation THEN m ELSE @,
                       !.stage = Evolve(p.stage, score)]

Refresh(i) ==
    /\ i \in 1..Len(plants)
    /\ \E m \in MutationRolls(plants[i], now) :
          plants' = [plants EXCEPT ![i] = RefreshRec(@, now, m)]
    /\ starved' = IF now - plants[i].watered_at >= DeathDays * SecondsPerDay
                  THEN starved \cup {i}
                  ELSE starved
    /\ last' = Call("refresh", i, None, plants[i], "ok")
    /\ UNCHANGED <<now, fence, inv, events, visit_at, session>>

----------------------------------------------------------------------------
(* Plant.water_supply_percent and Plant.fertilizer_percent *)

\* math.ceil(max(0.0, 1 - elapsed / window) * 100) in double arithmetic.
\* It equals the exact ceiling except at these hundredths of the window,
\* where 1 - k/100 times 100 rounds to a double just above 100 - k.
CeilRoundsUp ==
    {41, 42, 43, 44, 45, 57, 58, 69, 70, 71, 72, 82, 83, 84, 85, 86,
     94, 95, 96, 97, 98, 99}

\* Mutant: the remaining fraction is rounded down.
PercentLeftFloor(elapsed, window) ==
    (Max2(0, window - elapsed) * 100) \div window

PercentLeft(elapsed, window) ==
    LET remaining == Max2(0, window - elapsed)
        exact == (remaining * 100 + window - 1) \div window
    IN  IF (elapsed * 100) % window = 0 /\ ((elapsed * 100) \div window) \in CeilRoundsUp
        THEN exact + 1
        ELSE exact

\* Mutant: the supply is counted from the owner's last watering.
water_supply_percent_owner(p, t) ==
    PercentLeft(t - p.watered_at_owner, SecondsPerDay)

water_supply_percent(p, t) == PercentLeft(t - p.watered_at, SecondsPerDay)

fertilizer_percent(p, t) ==
    PercentLeft(t - p.fertilized_at, FertilizerDays * SecondsPerDay)

----------------------------------------------------------------------------
(* Plant.water *)

\* Mutant: the rate-limit query has no time window.
WateredRecentlyAnyAge(user, t) ==
    \E j \in 1..Len(plants) : plants[j].watered_by = user

\* The rate-limit query: a row last watered by this user within the cooldown.
WateredRecently(user, t) ==
    \E j \in 1..Len(plants) :
        /\ plants[j].watered_by = user
        /\ plants[j].watered_at >= t - VisitWaterCooldown

\* Mutant: a dead plant can be watered.
WaterResultDeadToo(p, a, t) ==
    IF water_supply_percent(p, t) = 100 THEN "damp"
    ELSE IF a = None THEN "ok"
    ELSE IF WateredRecently(a, t) THEN "empty"
    ELSE IF fence[p.user] THEN "fence"
    ELSE "ok"

\* Mutant: damp soil does not stop the watering.
WaterResultNoDampCheck(p, a, t) ==
    IF p.dead THEN "dead"
    ELSE IF a = None THEN "ok"
    ELSE IF WateredRecently(a, t) THEN "empty"
    ELSE IF fence[p.user] THEN "fence"
    ELSE "ok"

WaterResult(p, a, t) ==
    IF p.dead THEN "dead"
    ELSE IF water_supply_percent(p, t) = 100 THEN "damp"
    ELSE IF a = None THEN "ok"
    ELSE IF WateredRecently(a, t) THEN "empty"
    ELSE IF fence[p.user] THEN "fence"
    ELSE "ok"

\* Mutant: the owner's watering does not clear watered_by.
WaterRecKeepsWateredBy(p, a, t) ==
    IF WaterResult(p, a, t) # "ok" THEN p
    ELSE IF a = None
    THEN [p EXCEPT !.watered_at = t, !.watered_at_owner = t]
    ELSE [p EXCEPT !.watered_at = t, !.watered_by = a]

\* Mutant: a visitor's watering also counts as the owner's.
WaterRecVisitorAsOwner(p, a, t) ==
    IF WaterResult(p, a, t) # "ok" THEN p
    ELSE IF a = None
    THEN [p EXCEPT !.watered_at = t, !.watered_at_owner = t,
                   !.watered_by = None]
    ELSE [p EXCEPT !.watered_at = t, !.watered_at_owner = t,
                   !.watered_by = a]

\* Mutant: watering revives a dead plant.
WaterRecRevives(p, a, t) ==
    IF WaterResult(p, a, t) \notin {"ok", "dead"} THEN p
    ELSE IF a = None
    THEN [p EXCEPT !.watered_at = t, !.watered_at_owner = t,
                   !.watered_by = None, !.dead = FALSE]
    ELSE [p EXCEPT !.watered_at = t, !.watered_by = a, !.dead = FALSE]

WaterRec(p, a, t) ==
    IF WaterResult(p, a, t) # "ok" THEN p
    ELSE IF a = None
    THEN [p EXCEPT !.watered_at = t, !.watered_at_owner = t,
                   !.watered_by = None]
    ELSE [p EXCEPT !.watered_at = t, !.watered_by = a]

\* a is None for the owner, or a visiting user.
Water(i, a) ==
    /\ i \in 1..Len(plants)
    /\ a # plants[i].user
    /\ plants' = [plants EXCEPT ![i] = WaterRec(@, a, now)]
    /\ visit_at' = IF a # None /\ WaterResult(plants[i], a, now) = "ok"
                   THEN [visit_at EXCEPT ![a] = {now}]
                   ELSE visit_at
    /\ last' = Call("water", i, a, plants[i], WaterResult(plants[i], a, now))
    /\ UNCHANGED <<now, fence, inv, events, starved, session>>

----------------------------------------------------------------------------
(* Plant.fertilize *)

\* Mutant: the owner's inventory is used whoever acts.
ActorAlwaysOwner(p, a) == p.user

Actor(p, a) == IF a = None THEN p.user ELSE a

\* Mutant: the fence does not stop a visitor's fertilizer.
FertilizeResultNoFence(p, a, t) ==
    IF fertilizer_percent(p, t) # 0 THEN "rich"
    ELSE IF inv[Actor(p, a)].fertilizer < 1 THEN "none"
    ELSE "ok"

FertilizeResult(p, a, t) ==
    IF a # None /\ fence[p.user] THEN "fence"
    ELSE IF fertilizer_percent(p, t) # 0 THEN "rich"
    ELSE IF inv[Actor(p, a)].fertilizer < 1 THEN "none"
    ELSE "ok"

Fertilize(i, a) ==
    /\ i \in 1..Len(plants)
    /\ a # plants[i].user
    /\ LET p == plants[i]
           result == FertilizeResult(p, a, now)
       IN  /\ IF result = "ok"
              THEN /\ inv' = [inv EXCEPT ![Actor(p, a)].fertilizer = @ - 1]
                   /\ plants' = [plants EXCEPT ![i].fertilized_at = now]
              ELSE UNCHANGED <<inv, plants>>
           /\ last' = Call("fertilize", i, a, p, result)
    /\ UNCHANGED <<now, fence, events, starved, visit_at, session>>

----------------------------------------------------------------------------
(* Plant.shake *)

\* Mutant: fractional coins are rounded up.
ShakeCoinsRoundUp(p) ==
    (p.score - p.shaken_at + ShakeMultiplier - 1) \div ShakeMultiplier

ShakeCoins(p) == (p.score - p.shaken_at) \div ShakeMultiplier

\* Mutant: shaken_at advances by the capped number of coins.
ShakeRecAfterCap(p) ==
    [p EXCEPT !.shaken_at = @ + Min2(ShakeCoins(p), ShakeCap) * ShakeMultiplier]

ShakeRec(p) == [p EXCEPT !.shaken_at = @ + ShakeCoins(p) * ShakeMultiplier]

\* Mutant: no cap on the coins of one shake.
ShakeGrantUncapped(p) == ShakeCoins(p)

ShakeGrant(p) == Min2(ShakeCoins(p), ShakeCap)

Shake(i) ==
    /\ i \in 1..Len(plants)
    /\ LET p == plants[i]
       IN  /\ plants' = [plants EXCEPT ![i] = ShakeRec(p)]
           /\ inv' = [inv EXCEPT ![p.user].coin = @ + ShakeGrant(p)]
           /\ last' = Call("shake", i, None, p, "ok")
    /\ UNCHANGED <<now, fence, events, starved, visit_at, session>>

----------------------------------------------------------------------------
(* Plant.pick_petal *)

\* Mutant: a rolling 24-hour window instead of the calendar day.
MidnightRolling(t) == t - SecondsPerDay

\* datetime.now().replace(hour=0, minute=0, second=0, microsecond=0)
Midnight(t) == t - (t % SecondsPerDay)

PickedToday(user, i, t) ==
    \E e \in events :
        e.user = user /\ e.target = i /\ e.created_at >= Midnight(t)

\* Mutant: petals can be picked from a dead plant.
PickResultDeadToo(p, i, a, t) ==
    IF p.stage # FloweringStage THEN "stage"
    ELSE IF PickedToday(Actor(p, a), i, t) THEN "bare"
    ELSE "ok"

PickResult(p, i, a, t) ==
    IF p.dead THEN "dead"
    ELSE IF p.stage # FloweringStage THEN "stage"
    ELSE IF PickedToday(Actor(p, a), i, t) THEN "bare"
    ELSE "ok"

PickPetal(i, a) ==
    /\ i \in 1..Len(plants)
    /\ a # plants[i].user
    /\ LET p == plants[i]
           result == PickResult(p, i, a, now)
       IN  /\ IF result = "ok"
              THEN /\ events' = events \cup
                        {[user |-> Actor(p, a), target |-> i, created_at |-> now]}
                   /\ inv' = [inv EXCEPT ![Actor(p, a)].petal = @ + 1]
              ELSE UNCHANGED <<events, inv>>
           /\ last' = Call("pick_petal", i, a, p, result)
    /\ UNCHANGED <<now, plants, fence, starved, visit_at, session>>

----------------------------------------------------------------------------
(* Plant.harvest *)

\* Mutant: the generation is carried over whatever the stage.
HarvestGenerationAlwaysNext(p) == p.generation + 1

HarvestGeneration(p) ==
    IF p.stage = TerminalStage THEN p.generation + 1 ELSE 1

\* Mutant: user_active carries no unique index.
UniqueViolationNever(rows, u) == FALSE

\* The unique index on Plant.user_active: a row with user_active = u cannot
\* be inserted while another row has it.
UniqueViolation(rows, u) ==
    \E j \in 1..Len(rows) : rows[j].user_active = u

\* Mutant: the retiring row is saved but no replacement is created.
HarvestNoCreate(i) ==
    /\ i \in 1..Len(plants)
    /\ plants' = [plants EXCEPT ![i].dead = TRUE, ![i].user_active = None]
    /\ last' = Call("harvest", i, None, plants[i], "ok")
    /\ UNCHANGED <<now, fence, inv, events, starved, visit_at, session>>

\* The retiring row is saved first; create() then inserts the new row, which
\* raises IntegrityError when the unique index refuses it.
Harvest(i) ==
    /\ i \in 1..Len(plants)
    /\ LET p == plants[i]
           retired == [plants EXCEPT ![i].dead = TRUE, ![i].user_active = None]
           taken == UniqueViolation(retired, p.user)
       IN  /\ taken \/ Len(plants) < MaxPlants
           /\ plants' = IF taken THEN retired
                        ELSE Append(retired, NewPlant(p.user, HarvestGeneration(p), now))
           /\ last' = Call("harvest", i, None, p,
                           IF taken THEN "integrity_error" ELSE "ok")
    /\ UNCHANGED <<now, fence, inv, events, starved, visit_at, session>>

----------------------------------------------------------------------------
(* harvest_view: the request handler in front of Plant.harvest *)

\* Mutant: every plant can be harvested.
can_harvest_always(p) == TRUE

can_harvest(p) == p.dead \/ p.stage = TerminalStage

\* request.user.plant is the active row, created when there is none.  The
\* view refreshes its copy, answers BAD_REQUEST unless can_harvest(), and
\* only on the confirmed request calls harvest(), whose save() writes the
\* refreshed and retired row before the successor is created.
HarvestView(u, confirm) ==
    /\ ActivePlants(u) # {} \/ Len(plants) < MaxPlants
    /\ LET rows == IF ActivePlants(u) = {}
                   THEN Append(plants, NewPlant(u, 1, now))
                   ELSE plants
           i == CHOOSE j \in 1..Len(rows) : rows[j].user_active = u
       IN  \E m \in MutationRolls(rows[i], now) :
              LET r == RefreshRec(rows[i], now, m)
                  retired == [rows EXCEPT
                                 ![i] = [r EXCEPT !.dead = TRUE,
                                                  !.user_active = None]]
              IN  IF ~can_harvest(r)
                  THEN /\ plants' = rows
                       /\ starved' = starved
                       /\ last' = Call("harvest_view", i, u, rows[i],
                                       "bad_request")
                  ELSE IF ~confirm
                  THEN /\ plants' = rows
                       /\ starved' = starved
                       /\ last' = Call("harvest_view", i, u, rows[i], "page")
                  ELSE /\ Len(rows) < MaxPlants
                       /\ plants' = Append(retired,
                                        NewPlant(u, HarvestGeneration(r), now))
                       /\ starved' =
                            IF now - r.watered_at >= DeathDays * SecondsPerDay
                            THEN starved \cup {i}
                            ELSE starved
                       /\ last' = Call("harvest_view", i, u, rows[i], "ok")
    /\ UNCHANGED <<now, fence, inv, events, visit_at, session>>

----------------------------------------------------------------------------
(* The fence views *)

AddFence(u) ==
    /\ ~fence[u]
    /\ inv[u].fence >= 1
    /\ inv' = [inv EXCEPT ![u].fence = @ - 1]
    /\ fence' = [fence EXCEPT ![u] = TRUE]
    /\ last' = Call("add_fence", 0, u, NoPlant, "ok")
    /\ UNCHANGED <<now, plants, events, starved, visit_at, session>>

RemoveFence(u) ==
    /\ fence[u]
    /\ fence' = [fence EXCEPT ![u] = FALSE]
    /\ last' = Call("remove_fence", 0, u, NoPlant, "ok")
    /\ UNCHANGED <<now, plants, inv, events, starved, visit_at, session>>

----------------------------------------------------------------------------
(* User.plant: the active plant, created on first access *)

GetPlant(u) ==
    /\ ActivePlants(u) = {}
    /\ Len(plants) < MaxPlants
    /\ plants' = Append(plants, NewPlant(u, 1, now))
    /\ last' = Call("create", Len(plants) + 1, u, NoPlant, "ok")
    /\ UNCHANGED <<now, fence, inv, events, starved, visit_at, session>>

----------------------------------------------------------------------------
(* The clock *)

Tick ==
    /\ \E d \in Deltas : now' = now + d
    /\ last' = Call("tick", 0, None, NoPlant, "ok")
    /\ UNCHANGED <<plants, fence, inv, events, starved, visit_at, session>>

----------------------------------------------------------------------------

\* A row exactly as Plant.create() leaves it.
FreshPlant == NewPlant(1, 1, 0)

\* A flowering third-generation plant with 500 hours of score not yet shaken,
\* watered by its owner and refreshed six hours ago.
FloweringPlant ==
    [NewPlant(1, 3, 0) EXCEPT
        !.created_at = 0 - 60 * SecondsPerDay,
        !.updated_at = 0 - 6 * 3600,
        !.watered_at = 0 - 6 * 3600,
        !.watered_at_owner = 0 - 6 * 3600,
        !.score = 500 * ShakeMultiplier,
        !.stage = Evolve(0, 500 * ShakeMultiplier)]

\* A seed-bearing second-generation plant, fully shaken, watered a day ago
\* and refreshed just now.
SeedBearingPlant ==
    [NewPlant(1, 2, 0) EXCEPT
        !.created_at = 0 - 60 * SecondsPerDay,
        !.watered_at_owner = 0 - SecondsPerDay,
        !.score = 30 * SecondsPerDay,
        !.shaken_at = 30 * SecondsPerDay,
        !.stage = Evolve(0, 30 * SecondsPerDay)]

\* A first-generation seedling which nobody has watered for 5 days and which
\* has not been refreshed for the last six hours.
WiltedPlant ==
    [NewPlant(1, 1, 0) EXCEPT
        !.created_at = 0 - 10 * SecondsPerDay,
        !.updated_at = 0 - 6 * 3600,
        !.watered_at = 0 - 5 * SecondsPerDay,
        !.watered_at_owner = 0 - 5 * SecondsPerDay,
        !.fertilized_at = 0 - 14 * SecondsPerDay,
        !.score = 2 * SecondsPerDay,
        !.stage = Evolve(0, 2 * SecondsPerDay)]

\* A young plant that user 2 watered on a visit 864 seconds ago, the moment
\* its water supply dropped to 99%; the owner watered it a day ago.
VisitedPlant ==
    [NewPlant(1, 1, 0) EXCEPT
        !.created_at = 0 - 10 * SecondsPerDay,
        !.updated_at = 0 - 864,
        !.watered_at = 0 - 864,
        !.watered_at_owner = 0 - SecondsPerDay,
        !.watered_by = 2,
        !.score = 2 * SecondsPerDay,
        !.stage = Evolve(0, 2 * SecondsPerDay)]

InitPlants ==
    {FreshPlant, FloweringPlant, SeedBearingPlant, WiltedPlant, VisitedPlant}

\* The clock starts at a midnight.  User 1 has an active plant; the other
\* users have not requested theirs yet.  Every user holds the bottle of
\* fertilizer User.initialize hands out, and user 1 owns a fence.  The
\* owner of the flowering plant picked a petal when they last looked at it,
\* six hours before this midnight.
Init ==
    /\ now = 0
    /\ \E p \in InitPlants :
          /\ plants = <<p>>
          /\ visit_at = [u \in Users |->
                            IF p.watered_by = u THEN {p.watered_at} ELSE {}]
    /\ fence = [u \in Users |-> FALSE]
    /\ events = IF plants[1] = FloweringPlant
                THEN {[user |-> 1, target |-> 1,
                       created_at |-> FloweringPlant.updated_at]}
                ELSE {}
    /\ inv = [u \in Users |->
                [coin |-> 0, fertilizer |-> 1,
                 petal |-> Cardinality({e \in events : e.user = u}),
                 fence |-> IF u = 1 THEN 1 ELSE 0]]
    /\ starved = {}
    /\ session = Idle
    /\ steps = 0
    /\ last = Call("init", 0, None, NoPlant, "ok")

Step ==
    \/ Tick
    \/ \E u \in Users : GetPlant(u)
    \/ \E i \in 1..MaxPlants : Refresh(i)
    \/ \E i \in 1..MaxPlants, a \in {None} \cup Users : Water(i, a)
    \/ \E i \in 1..MaxPlants, a \in {None} \cup Users : Fertilize(i, a)
    \/ \E i \in 1..MaxPlants : Shake(i)
    \/ \E i \in 1..MaxPlants, a \in {None} \cup Users : PickPetal(i, a)
    \/ \E i \in 1..MaxPlants : Harvest(i)
    \/ \E u \in Users, confirm \in BOOLEAN : HarvestView(u, confirm)
    \/ \E u \in Users : AddFence(u)
    \/ \E u \in Users : RemoveFence(u)

\* Every call and every clock advance counts as one step of a run.
Next ==
    /\ steps < MaxSteps
    /\ steps' = steps + 1
    /\ Step

Spec == Init /\ [][Next]_vars

----------------------------------------------------------------------------
(* The hourly sweep over two plants of different generations *)

\* refresh_all_plants: every active row is refreshed and saved.
Sweep ==
    /\ \E ms \in [1..Len(plants) -> {NoMutation} \cup (0..(NumMutations - 1))] :
          /\ \A i \in 1..Len(plants) : ms[i] \in MutationRolls(plants[i], now)
          /\ plants' = [i \in 1..Len(plants) |->
                           IF plants[i].user_active # None
                           THEN RefreshRec(plants[i], now, ms[i])
                           ELSE plants[i]]
    /\ starved' = starved \cup
                    {i \in 1..Len(plants) :
                        /\ plants[i].user_active # None
                        /\ now - plants[i].watered_at >= DeathDays * SecondsPerDay}
    /\ last' = Call("sweep", 1, None, plants[1], "ok")
    /\ UNCHANGED <<now, fence, inv, events, visit_at, session>>

\* Seconds since the watering and since the last refresh, and since the
\* fertilizing; odd and even, inside and outside the windows.
WaterAges == {1, 7, 12 * 3600, 12 * 3600 + 3, 25 * 3600}
FertilizerAges == {7, 12 * 3600 + 3, 4 * SecondsPerDay}

\* Two active plants of generations 1 and 2 with the same timestamps.
InitGrowth ==
    /\ now = 0
    /\ \E w \in WaterAges, u \in WaterAges, f \in FertilizerAges :
          /\ u <= w
          /\ LET p == [NewPlant(1, 1, 0) EXCEPT
                           !.created_at = 0 - 10 * SecondsPerDay,
                           !.updated_at = 0 - u,
                           !.watered_at = 0 - w,
                           !.watered_at_owner = 0 - w,
                           !.fertilized_at = 0 - f]
             IN  plants = <<p, [p EXCEPT !.user = 2, !.user_active = 2,
                                         !.generation = 2]>>
    /\ fence = [u \in Users |-> FALSE]
    /\ events = {}
    /\ inv = [u \in Users |->
                [coin |-> 0, fertilizer |-> 0, petal |-> 0, fence |-> 0]]
    /\ starved = {}
    /\ visit_at = [u \in Users |-> {}]
    /\ session = Idle
    /\ steps = 0
    /\ last = Call("init", 0, None, NoPlant, "ok")

NextGrowth ==
    /\ steps < 1
    /\ steps' = steps + 1
    /\ Sweep

SpecGrowth == InitGrowth /\ [][NextGrowth]_vars

----------------------------------------------------------------------------
(* One refresh of a plant close to a stage cutoff *)

\* Scores one short of each cutoff, and the two ends of the scale.
StartScores ==
    {0, Cutoff(TerminalStage)} \cup {Cutoff(k) - 1 : k \in 1..TerminalStage}

\* Seconds since the plant was watered and last refreshed.
EvolveAges == {6 * 3600, SecondsPerDay, 2 * SecondsPerDay}

\* A plant of generation 1 to 3 that was refreshed when it was watered, and
\* was fertilized then or not for 4 days.
InitEvolve ==
    /\ now = 0
    /\ \E g \in 1..3, s \in StartScores, w \in EvolveAges,
          f \in {0, 4 * SecondsPerDay} :
          plants = <<[NewPlant(1, g, 0) EXCEPT
                         !.created_at = 0 - 60 * SecondsPerDay,
                         !.updated_at = 0 - w,
                         !.watered_at = 0 - w,
                         !.watered_at_owner = 0 - w,
                         !.fertilized_at = 0 - w - f,
                         !.score = s,
                         !.stage = Evolve(0, s)]>>
    /\ fence = [u \in Users |-> FALSE]
    /\ events = {}
    /\ inv = [u \in Users |->
                [coin |-> 0, fertilizer |-> 0, petal |-> 0, fence |-> 0]]
    /\ starved = {}
    /\ visit_at = [u \in Users |-> {}]
    /\ session = Idle
    /\ steps = 0
    /\ last = Call("init", 0, None, NoPlant, "ok")

NextEvolve ==
    /\ steps < 1
    /\ steps' = steps + 1
    /\ Refresh(1)

SpecEvolve == InitEvolve /\ [][NextEvolve]_vars

----------------------------------------------------------------------------
(* Requests and the sweep as separate load, change and save steps *)

\* Seconds that pass between two steps of concurrent workers.
RaceDeltas == {7, 3600}

\* A plant watered and refreshed just now, with two hours and five seconds
\* of score that have not been shaken.
RacePlant(g) ==
    [NewPlant(1, g, 0) EXCEPT
        !.created_at = 0 - SecondsPerDay,
        !.watered_at = 0,
        !.score = 2 * ShakeMultiplier + 5]

InitRace ==
    /\ now = 0
    /\ \E g \in 1..3 : plants = <<RacePlant(g)>>
    /\ fence = [u \in Users |-> FALSE]
    /\ events = {}
    /\ inv = [u \in Users |->
                [coin |-> 0, fertilizer |-> 0, petal |-> 0, fence |-> 0]]
    /\ starved = {}
    /\ visit_at = [u \in Users |-> {}]
    /\ session = Idle
    /\ steps = 0
    /\ last = Call("init", 0, None, NoPlant, "ok")

\* The worker reads the user's active row.
Load(w) ==
    /\ session[w].pc = "idle"
    /\ session' = [session EXCEPT
                       ![w] = [pc |-> "loaded", rec |-> plants[1],
                               from |-> plants[1]]]
    /\ UNCHANGED <<now, plants, fence, inv, events, starved, visit_at, last>>

\* plant.refresh() on the worker's copy, at the clock of that moment.
RefreshCopy(w) ==
    /\ session[w].pc = "loaded"
    /\ \E m \in MutationRolls(session[w].rec, now) :
          session' = [session EXCEPT
                         ![w].pc = "refreshed",
                         ![w].rec = RefreshRec(session[w].rec, now, m)]
    /\ UNCHANGED <<now, plants, fence, inv, events, starved, visit_at, last>>

\* shake_view after its refresh: BAD_REQUEST for a dead plant, otherwise
\* shake() on the copy, whose add_item() writes the coins at once.
ShakeCopy(w) ==
    /\ w = "shaker"
    /\ session[w].pc = "refreshed"
    /\ LET rec == session[w].rec
       IN  IF rec.dead
           THEN /\ session' = [session EXCEPT ![w].pc = "idle"]
                /\ inv' = inv
           ELSE /\ session' = [session EXCEPT ![w].pc = "shaken",
                                                 ![w].rec = ShakeRec(rec)]
                /\ inv' = [inv EXCEPT ![rec.user].coin = @ + ShakeGrant(rec)]
    /\ UNCHANGED <<now, plants, fence, events, starved, visit_at, last>>

\* Mutant: save() writes the score column only.
SavedScoreOnly(stored, rec) == [stored EXCEPT !.score = rec.score]

\* plant.save() writes every field of the copy over the stored row.
Saved(stored, rec) == rec

Save(w) ==
    /\ session[w].pc = IF w = "shaker" THEN "shaken" ELSE "refreshed"
    /\ plants' = [plants EXCEPT ![1] = Saved(plants[1], session[w].rec)]
    /\ session' = [session EXCEPT ![w].pc = "idle"]
    /\ last' = Call("save", 1, None, session[w].from, w)
    /\ UNCHANGED <<now, fence, inv, events, starved, visit_at>>

RaceTick ==
    /\ \E d \in RaceDeltas : now' = now + d
    /\ UNCHANGED <<plants, fence, inv, events, starved, visit_at, session,
                   last>>

\* The sweep and a request for the plant page.
NextRace ==
    /\ steps < MaxRaceSteps
    /\ steps' = steps + 1
    /\ \/ RaceTick
       \/ \E w \in {"sweep", "view"} : Load(w)
       \/ \E w \in {"sweep", "view"} : RefreshCopy(w)
       \/ \E w \in {"sweep", "view"} : Save(w)

SpecRace == InitRace /\ [][NextRace]_vars

\* The sweep and a request to shake the plant.
NextShakeRace ==
    /\ steps < MaxRaceSteps
    /\ steps' = steps + 1
    /\ \/ RaceTick
       \/ \E w \in {"sweep", "shaker"} : Load(w)
       \/ \E w \in {"sweep", "shaker"} : RefreshCopy(w)
       \/ ShakeCopy("shaker")
       \/ \E w \in {"sweep", "shaker"} : Save(w)

SpecShakeRace == InitRace /\ [][NextShakeRace]_vars

----------------------------------------------------------------------------
(* One watered plant refreshed again and again, seconds or an hour apart *)

SplitDeltas == {5, 40, 3600}

\* A plant watered and refreshed just now, fertilized just now or long ago.
SplitPlant(g, f) ==
    [NewPlant(1, g, 0) EXCEPT
        !.created_at = 0 - SecondsPerDay,
        !.watered_at = 0,
        !.fertilized_at = f]

InitSplit ==
    /\ now = 0
    /\ \E g \in 1..3, f \in {0, 0 - 4 * SecondsPerDay} :
          plants = <<SplitPlant(g, f)>>
    /\ fence = [u \in Users |-> FALSE]
    /\ events = {}
    /\ inv = [u \in Users |->
                [coin |-> 0, fertilizer |-> 0, petal |-> 0, fence |-> 0]]
    /\ starved = {}
    /\ visit_at = [u \in Users |-> {}]
    /\ session = Idle
    /\ steps = 0
    /\ last = Call("init", 0, None, NoPlant, "ok")

SplitTick ==
    /\ \E d \in SplitDeltas : now' = now + d
    /\ UNCHANGED <<plants, fence, inv, events, starved, visit_at, session,
                   last>>

NextSplit ==
    /\ steps < MaxSteps
    /\ steps' = steps + 1
    /\ \/ SplitTick
       \/ Refresh(1)

SpecSplit == InitSplit /\ [][NextSplit]_vars

----------------------------------------------------------------------------
(* The gauges read at many ages of the water and of the fertilizer *)

\* Ages of the water in steps of half a percent of the day, up to past the
\* full day, and one minute; the fertilizer is three times as old, which is
\* the same fraction of its three days.
GaugeAges == {k * (SecondsPerDay \div 200) : k \in 0..MaxGauge} \cup {60}

InitGauge ==
    /\ now = 0
    /\ \E e \in GaugeAges :
          plants = <<[FreshPlant EXCEPT !.watered_at = 0 - e,
                                        !.watered_at_owner = 0 - e,
                                        !.fertilized_at = 0 - FertilizerDays * e]>>
    /\ fence = [u \in Users |-> FALSE]
    /\ events = {}
    /\ inv = [u \in Users |->
                [coin |-> 0, fertilizer |-> 1, petal |-> 0, fence |-> 0]]
    /\ starved = {}
    /\ visit_at = [u \in Users |-> {}]
    /\ session = Idle
    /\ steps = 0
    /\ last = Call("init", 0, None, NoPlant, "ok")

\* The plant page reads both properties of the row.
ReadGauges ==
    /\ steps = 0
    /\ steps' = 1
    /\ last' = Call("gauges", 1, None, plants[1],
                    <<water_supply_percent(plants[1], now),
                      fertilizer_percent(plants[1], now)>>)
    /\ UNCHANGED <<now, plants, fence, inv, events, starved, visit_at,
                  session>>

NextGauge == ReadGauges

SpecGauge == InitGauge /\ [][NextGauge]_vars

----------------------------------------------------------------------------
(* Properties of refresh() *)

Rows == 1..Len(plants)

\* The row the last call acted on, after the call.
Target == plants[last.pid]

Refreshed == last.op = "refresh"

DeathSeconds == DeathDays * SecondsPerDay

SetMax(S) == CHOOSE x \in S : \A y \in S : x >= y
SetMin(S) == CHOOSE x \in S : \A y \in S : x <= y

\* C1: over refresh() calls at non-decreasing clock values the score and the
\* stage of a plant record never decrease; no other call lowers them either.
C1_ScoreStageMonotone ==
    [][\A i \in Rows : /\ plants'[i].score >= plants[i].score
                       /\ plants'[i].stage >= plants[i].stage]_vars

\* A refresh that raised both the score and the stage of a record.
C1_Witness ==
    /\ Refreshed
    /\ Target.score > last.pre.score
    /\ Target.stage > last.pre.stage

\* The gain the claim states: the watered seconds since the last refresh, half
\* of those that are also fertilized, times the generation's growth rate,
\* truncated as Python's int() truncates the double product.
C2_Ticks(w, u, t) ==
    SetMax({0, SetMin({t, w + SecondsPerDay}) - SetMax({u, w})})

C2_BonusTicks(w, f, u, t) ==
    SetMax({0, SetMin({t, f + 3 * SecondsPerDay, w + SecondsPerDay})
               - SetMax({u, f, w})})

C2_Gain(p, t) ==
    IntTicks(2 * C2_Ticks(p.watered_at, p.updated_at, t)
             + C2_BonusTicks(p.watered_at, p.fertilized_at, p.updated_at, t),
             p.generation)

C3_DeathBoundary ==
    Refreshed =>
        IF now - last.pre.watered_at >= DeathSeconds
        THEN /\ Target.dead
             /\ Target.score = last.pre.score
             /\ Target.stage = last.pre.stage
             /\ Target.mutation = last.pre.mutation
             /\ Target.updated_at = now
        ELSE Target.dead = last.pre.dead

\* A living plant dies in a refresh although part of its watered day had not
\* been credited yet.
C3_Witness ==
    /\ Refreshed
    /\ ~last.pre.dead
    /\ Target.dead
    /\ last.pre.updated_at < last.pre.watered_at + SecondsPerDay
    /\ last.pre.updated_at >= last.pre.watered_at

\* C4: a refresh() at the clock value of the previous refresh adds nothing to
\* score and leaves stage unchanged.
C4_SameClockNoGain ==
    (Refreshed /\ last.pre.updated_at = now)
        => /\ Target.score = last.pre.score
           /\ Target.stage = last.pre.stage

\* A second refresh at the same clock of a living plant inside its watered
\* day, whose score had grown before.
C4_Witness ==
    /\ Refreshed
    /\ last.pre.updated_at = now
    /\ ~Target.dead
    /\ now > last.pre.watered_at
    /\ now < last.pre.watered_at + SecondsPerDay
    /\ Target.score > 0

\* C5 as stated: once a record is dead, by neglect or by harvest, a refresh()
\* leaves its score and stage unchanged.
C5_DeadNeverCredited ==
    (Refreshed /\ last.pre.dead)
        => /\ Target.score = last.pre.score
           /\ Target.stage = last.pre.stage

\* C5 amended: once a refresh() has marked a record dead for 5 days without
\* water, every later refresh() leaves its score and stage unchanged.
C5_StarvedNeverCredited ==
    (Refreshed /\ last.pre.dead /\ last.pid \in starved)
        => /\ Target.score = last.pre.score
           /\ Target.stage = last.pre.stage

\* A later refresh, at a later clock, of a record an earlier refresh marked
\* dead.
C5_Witness ==
    /\ Refreshed
    /\ last.pre.dead
    /\ last.pid \in starved
    /\ last.pre.updated_at - last.pre.watered_at >= DeathSeconds
    /\ now > last.pre.updated_at

----------------------------------------------------------------------------
(* Properties of the active plant *)

HasRows(u) == \E i \in Rows : plants[i].user = u

LiveActive(u) == {i \in Rows : plants[i].user_active = u /\ ~plants[i].dead}

\* C6 as stated: every user whose plant has been created has exactly one
\* record that is active and not dead.
C6_OneLiveActive ==
    \A u \in Users : HasRows(u) => Cardinality(LiveActive(u)) = 1

\* C6 amended: every user whose plant has been created has exactly one
\* active record, and every record of the user that is not dead is that
\* active record; the active record itself may be dead.
C6_OneActive ==
    \A u \in Users :
        HasRows(u) =>
            /\ Cardinality(ActivePlants(u)) = 1
            /\ \A i \in Rows :
                  (plants[i].user = u /\ ~plants[i].dead)
                      => plants[i].user_active = u

\* A harvest has replaced a record that a refresh had marked dead while it
\* was the active one.
C6_Witness ==
    /\ last.op = "harvest"
    /\ last.result = "ok"
    /\ last.pre.dead
    /\ last.pre.user_active = last.pre.user
    /\ Cardinality(ActivePlants(last.pre.user)) = 1

\* C7: at most one record per user has user_active set.
C7_AtMostOneActive ==
    \A u \in Users : Cardinality(ActivePlants(u)) <= 1

\* A harvest of an already retired record, whose replacement the unique
\* index refused because the user has an active plant.
C7_Witness ==
    /\ last.op = "harvest"
    /\ last.result = "integrity_error"
    /\ Cardinality(ActivePlants(last.pre.user)) = 1

----------------------------------------------------------------------------
(* Properties of shake() *)

Shaken == last.op = "shake"

Unshaken(p) == p.score - p.shaken_at

CoinsGranted == inv[last.pre.user].coin - last.inv[last.pre.user].coin

\* C8: shaken_at never exceeds score, in any record.
C8_ShakenAtMostScore ==
    \A i \in Rows : plants[i].shaken_at <= plants[i].score

\* A shake paid coins out of a score that a refresh had raised, and left a
\* remainder.
C8_Witness ==
    /\ Shaken
    /\ CoinsGranted > 0
    /\ Target.shaken_at > last.pre.shaken_at
    /\ Target.shaken_at < Target.score

\* C9 as stated: with 500 hours un-shaken, one shake grants 100 coins and
\* advances shaken_at by exactly 100 * 3600.
C9_CapLeavesRemainder ==
    (Shaken /\ Unshaken(last.pre) = 500 * 3600)
        => /\ CoinsGranted = 100
           /\ Target.shaken_at = last.pre.shaken_at + 100 * 3600

\* C9 amended: with 500 hours un-shaken, one shake grants 100 coins and
\* advances shaken_at by the whole 500 * 3600, so that nothing is left for a
\* later shake.
C9_CapForfeitsRemainder ==
    (Shaken /\ Unshaken(last.pre) = 500 * 3600)
        => /\ CoinsGranted = 100
           /\ Target.shaken_at = last.pre.shaken_at + 500 * 3600
           /\ Unshaken(Target) = 0

\* A shake of a plant with exactly 500 hours un-shaken.
C9_Witness ==
    /\ Shaken
    /\ Unshaken(last.pre) = 500 * 3600
    /\ CoinsGranted = 100

\* C10: every shake advances shaken_at by the whole hours of un-shaken score,
\* computed before the cap, leaving less than one hour; the owner receives
\* min(100, hours) coins.
C10_ShakeAdvance ==
    Shaken =>
        LET hours == Unshaken(last.pre) \div 3600
        IN  /\ Target.shaken_at = last.pre.shaken_at + hours * 3600
            /\ 0 <= Unshaken(Target)
            /\ Unshaken(Target) < 3600
            /\ CoinsGranted = IF hours < 100 THEN hours ELSE 100
            /\ \A u \in Users :
                  u # last.pre.user => inv[u].coin = last.inv[u].coin

\* A capped shake that leaves a sub-hour remainder.
C10_Witness ==
    /\ Shaken
    /\ Unshaken(last.pre) > 100 * 3600
    /\ CoinsGranted = 100
    /\ Unshaken(Target) > 0

----------------------------------------------------------------------------
(* Properties of harvest() *)

Harvested == last.op = "harvest"

\* The row most recently inserted.
Newest == plants[Len(plants)]

\* C11: harvest() of a user's active record marks it dead, clears its
\* user_active and creates exactly one new record of the same owner, active,
\* with score 0, stage 0, shaken_at 0, not dead, whose generation is the old
\* one plus 1 if the retiring record was at stage 5 and 1 otherwise.
C11_HarvestReplaces ==
    (Harvested /\ last.pre.user_active = last.pre.user) =>
        /\ Target.dead
        /\ Target.user_active = None
        /\ Len(plants) = last.rows + 1
        /\ Newest.user = last.pre.user
        /\ Newest.user_active = last.pre.user
        /\ Newest.score = 0
        /\ Newest.stage = 0
        /\ Newest.shaken_at = 0
        /\ ~Newest.dead
        /\ Newest.generation = IF last.pre.stage = 5
                               THEN last.pre.generation + 1
                               ELSE 1

\* A harvest at the terminal stage of a second-generation plant, which left a
\* third-generation successor.
C11_Witness ==
    /\ Harvested
    /\ last.pre.user_active = last.pre.user
    /\ last.pre.stage = 5
    /\ last.pre.generation = 2
    /\ Newest.generation = 3
    /\ Newest.created_at = now

\* The plant as harvest_view sees it after its refresh().
Viewed == RefreshRec(last.pre, now, NoMutation)

----------------------------------------------------------------------------
(* Properties of water() *)

Watered == last.op = "water"

\* The water supply as the specification derives it from the timestamp:
\* ceil(max(0, 1 - seconds / 86400) * 100).
SupplyPercent(p, t) ==
    LET left == IF t - p.watered_at >= 86400 THEN 0
                ELSE 86400 - (t - p.watered_at)
    IN  (left * 100 + 86399) \div 86400

\* C13: water() on a dead plant, or on a plant whose water supply is 100%,
\* changes nothing, whether the owner or a visitor calls it: watered_at,
\* watered_at_owner, watered_by and every other field keep their values.
C13_WaterNoOp ==
    (Watered /\ (last.pre.dead \/ SupplyPercent(last.pre, now) = 100)) =>
        /\ last.result \in {"dead", "damp"}
        /\ Target = last.pre

\* A visitor waters a plant its owner watered 45 seconds earlier.
C13_Witness ==
    /\ Watered
    /\ last.actor # None
    /\ ~last.pre.dead
    /\ now - last.pre.watered_at = 45
    /\ last.pre.watered_by = None
    /\ last.result = "damp"

\* C14: water() by the owner on a living plant whose water supply is below
\* 100% sets watered_at and watered_at_owner to the clock and clears
\* watered_by; the water supply is 100% right after.
C14_SelfWatering ==
    (/\ Watered
     /\ last.actor = None
     /\ ~last.pre.dead
     /\ SupplyPercent(last.pre, now) < 100) =>
        /\ last.result = "ok"
        /\ Target.watered_at = now
        /\ Target.watered_at_owner = now
        /\ Target.watered_by = None
        /\ water_supply_percent(Target, now) = 100

\* The owner waters a plant that a visitor had watered hours before.
C14_Witness ==
    /\ Watered
    /\ last.actor = None
    /\ last.result = "ok"
    /\ last.pre.watered_by # None
    /\ last.pre.watered_at < now
    /\ Target.watered_by = None
    /\ Target.watered_at_owner = now

\* A successful watering by a visitor.
VisitWatered == Watered /\ last.actor # None /\ last.result = "ok"

\* C15: two successful water(user=V) calls of the same visitor V, on the same
\* or on different plants, are at least the cooldown apart, whatever the
\* owners and other visitors did in between.
C15_VisitsCooldownApart ==
    VisitWatered =>
        \A t \in last.visit_at[last.actor] : now - t >= VisitWaterCooldown

\* A visitor who has watered on a visit before calls water() on a living
\* plant with no fence whose water supply is below 100%.
VisitAgain ==
    /\ Watered
    /\ last.actor # None
    /\ last.visit_at[last.actor] # {}
    /\ ~last.pre.dead
    /\ ~fence[last.pre.user]
    /\ SupplyPercent(last.pre, now) < 100

VisitSucceeded ==
    /\ last.result = "ok"
    /\ Target.watered_at = now
    /\ Target.watered_by = last.actor

\* C16 as stated: once the cooldown has elapsed since the visitor's last
\* successful visit-watering, the watering succeeds.
C16_SucceedsAfterCooldown ==
    (VisitAgain /\ \A t \in last.visit_at[last.actor] :
                      now - t >= VisitWaterCooldown)
        => VisitSucceeded

\* C16 amended: once more than the cooldown has elapsed since the visitor's
\* last successful visit-watering, the watering succeeds.
C16_SucceedsPastCooldown ==
    (VisitAgain /\ \A t \in last.visit_at[last.actor] :
                      now - t > VisitWaterCooldown)
        => VisitSucceeded

\* Six hours after watering one plant, the visitor waters another plant
\* while the first still carries the visitor's name.
C16_Witness ==
    /\ VisitAgain
    /\ VisitSucceeded
    /\ \E j \in Rows : /\ j # last.pid
                        /\ plants[j].watered_by = last.actor
                        /\ plants[j].watered_at = now - 6 * 3600

\* C17: a successful visit-watering sets watered_at to the clock and
\* watered_by to the visitor and leaves watered_at_owner as it was; the
\* watered_at_owner of a record changes only in a water() call by its owner.
C17_OwnerTimeOnlyByOwner ==
    [][\A i \in Rows :
          /\ (/\ last'.op = "water"
              /\ last'.pid = i
              /\ last'.actor # None
              /\ last'.result = "ok")
                => /\ plants'[i].watered_at = now
                   /\ plants'[i].watered_by = last'.actor
                   /\ plants'[i].watered_at_owner = plants[i].watered_at_owner
          /\ plants'[i].watered_at_owner # plants[i].watered_at_owner
                => /\ last'.op = "water"
                   /\ last'.pid = i
                   /\ last'.actor = None]_vars

\* A visitor has watered a plant whose owner last watered it a day before.
C17_Witness ==
    /\ VisitWatered
    /\ Target.watered_at = now
    /\ Target.watered_by = last.actor
    /\ Target.watered_at_owner = last.pre.watered_at_owner
    /\ Target.watered_at_owner <= now - SecondsPerDay

----------------------------------------------------------------------------
(* Properties of the fence and of fertilize() *)

Fertilized == last.op = "fertilize"

\* The user whose inventory a call draws on.
ActingUser == IF last.actor = None THEN last.pre.user ELSE last.actor

\* Whether the fertilizer has run out: 3 days or more since fertilized_at.
SoilEmpty(p, t) == t - p.fertilized_at >= 3 * 86400

\* C18: while the owner's fence is active, water() and fertilize() by a
\* visitor change nothing: the record, with watered_at, watered_by and
\* fertilized_at, and every inventory stay as they were.  The owner's own
\* water() and fertilize() are never answered with the fence message and
\* succeed whenever they would without a fence.
C18_FenceBlocksVisitors ==
    ((Watered \/ Fertilized) /\ fence[last.pre.user]) =>
        IF last.actor # None
        THEN /\ last.result # "ok"
             /\ Fertilized => last.result = "fence"
             /\ Target = last.pre
             /\ inv = last.inv
        ELSE /\ last.result # "fence"
             /\ (Watered /\ ~last.pre.dead /\ SupplyPercent(last.pre, now) < 100)
                    => (last.result = "ok" /\ Target.watered_at = now)
             /\ (/\ Fertilized
                 /\ SoilEmpty(last.pre, now)
                 /\ last.inv[last.pre.user].fertilizer >= 1)
                    => (last.result = "ok" /\ Target.fertilized_at = now)

\* A visitor holding fertilizer is stopped by the fence at a plant whose
\* soil is empty.
C18_Witness ==
    /\ Fertilized
    /\ last.actor # None
    /\ fence[last.pre.user]
    /\ SoilEmpty(last.pre, now)
    /\ inv[last.actor].fertilizer >= 1
    /\ last.result = "fence"

\* C19: fertilize() sets fertilized_at to the clock and takes exactly one
\* fertilizer from the acting user (the owner when no user is given) if and
\* only if the soil is empty, the acting user holds a fertilizer, and the
\* actor is the owner or no fence is up; otherwise fertilized_at and all
\* inventories are unchanged.
C19_FertilizeIff ==
    Fertilized =>
        IF /\ SoilEmpty(last.pre, now)
           /\ last.inv[ActingUser].fertilizer >= 1
           /\ (last.actor = None \/ ~fence[last.pre.user])
        THEN /\ last.result = "ok"
             /\ Target = [last.pre EXCEPT !.fertilized_at = now]
             /\ inv = [last.inv EXCEPT ![ActingUser].fertilizer = @ - 1]
        ELSE /\ last.result # "ok"
             /\ Target = last.pre
             /\ inv = last.inv

\* A visitor has spent their only fertilizer on another user's plant.
C19_Witness ==
    /\ Fertilized
    /\ last.actor # None
    /\ last.result = "ok"
    /\ Target.fertilized_at = now
    /\ last.inv[last.actor].fertilizer = 1
    /\ inv[last.actor].fertilizer = 0
    /\ inv[last.pre.user].fertilizer = last.inv[last.pre.user].fertilizer

----------------------------------------------------------------------------
(* Properties of pick_petal() *)

Picked == last.op = "pick_petal"

\* The first second of the calendar day of the clock.
DayStart == now - (now % 86400)

\* The actor had picked a petal from this plant earlier in this calendar day.
PickedThisDay ==
    \E e \in last.events :
        /\ e.user = ActingUser
        /\ e.target = last.pid
        /\ e.created_at >= DayStart

\* C20: pick_petal() on a living flowering plant grants one petal and logs one
\* event unless the same actor picked from the same plant earlier in the same
\* calendar day, in which case nothing is granted and nothing is logged;
\* picks of the day before, of other actors or on other plants do not count.
C20_OnePetalPerDay ==
    (Picked /\ ~last.pre.dead /\ last.pre.stage = 4) =>
        IF PickedThisDay
        THEN /\ last.result = "bare"
             /\ events = last.events
             /\ inv = last.inv
        ELSE /\ last.result = "ok"
             /\ events = last.events \cup
                    {[user |-> ActingUser, target |-> last.pid,
                      created_at |-> now]}
             /\ inv = [last.inv EXCEPT ![ActingUser].petal = @ + 1]

\* A pick after midnight that succeeds less than 24 hours after the same
\* actor's previous pick from the same plant.
C20_Witness ==
    /\ Picked
    /\ last.result = "ok"
    /\ \E e \in last.events :
          /\ e.user = ActingUser
          /\ e.target = last.pid
          /\ now - e.created_at < 86400
    /\ inv[ActingUser].petal = 2

\* C21: pick_petal() on a dead plant, or on a plant that is not at stage 4,
\* grants no petal and logs no event; on a living plant at stage 4 the first
\* pick of the day adds exactly one petal to the actor (the owner when no
\* user is given) and leaves every other inventory as it was.
C21_PetalOnlyFromLivingFlower ==
    Picked =>
        IF last.pre.dead \/ last.pre.stage # 4
        THEN /\ last.result \in {"dead", "stage"}
             /\ events = last.events
             /\ inv = last.inv
        ELSE ~PickedThisDay =>
                /\ inv[ActingUser].petal = last.inv[ActingUser].petal + 1
                /\ \A u \in Users : u # ActingUser => inv[u] = last.inv[u]
                /\ inv[ActingUser].coin = last.inv[ActingUser].coin
                /\ inv[ActingUser].fertilizer = last.inv[ActingUser].fertilizer

\* A visitor has picked their first petal from another user's flowering
\* plant.
C21_Witness ==
    /\ Picked
    /\ last.actor # None
    /\ last.result = "ok"
    /\ last.inv[last.actor].petal = 0
    /\ inv[last.actor].petal = 1
    /\ inv[last.pre.user] = last.inv[last.pre.user]

----------------------------------------------------------------------------
(* Properties of the gauges *)

\* ceil(max(0, 1 - e / w) * 100): the least c with c / 100 >= 1 - e / w, and,
\* as the product is a double, one more than that at the hundredths of the
\* window where (1 - k / 100) * 100 comes out just above the integer.
CeilPercent(e, w) ==
    LET left == IF e >= w THEN 0 ELSE w - e
        least == CHOOSE c \in 0..100 :
                    /\ c * w >= left * 100
                    /\ (c - 1) * w < left * 100
    IN  IF \E k \in CeilRoundsUp : e * 100 = k * w THEN least + 1 ELSE least

----------------------------------------------------------------------------
(* Properties of the growth rate *)

\* Twice the gain before the growth rate: 2 * (ticks + 0.5 * bonusTicks).
HalfTicks(p, t) ==
    2 * C2_Ticks(p.watered_at, p.updated_at, t)
    + C2_BonusTicks(p.watered_at, p.fertilized_at, p.updated_at, t)

\* C23: with the same timestamps, a refresh() adds trunc(g) to a plant of
\* generation 1 and trunc(1.2 * g) to a plant of generation 2, where g is
\* ticks + 0.5 * bonusTicks: the rate is applied before the one truncation.
C23_GenerationTwoGain ==
    last.op = "sweep" =>
        LET h == HalfTicks(last.pre, now)
        IN  /\ plants[1].generation = 1
            /\ plants[2].generation = 2
            /\ plants[1].score = last.pre.score + (h \div 2)
            /\ plants[2].score = last.pre.score + ((12 * h) \div 20)
            /\ (h = 2 * 43200) => plants[2].score = last.pre.score + 51840

\* A refresh whose untruncated gain is 64804.5: the second generation gains
\* 77765, which is neither 1.2 times 64804 nor a whole multiple of it.
C23_Witness ==
    /\ last.op = "sweep"
    /\ HalfTicks(last.pre, now) = 129609
    /\ plants[1].score = last.pre.score + 64804
    /\ plants[2].score = last.pre.score + 77765

----------------------------------------------------------------------------
(* Properties of the stages *)

\* C24: after a refresh() that does not take the death path the stage is the
\* terminal stage 5 or the score is below the cutoff of the next stage; no
\* record ever has a stage above 5.
C24_StageMatchesScore ==
    /\ \A i \in Rows : plants[i].stage \in 0..5
    /\ (Refreshed /\ now - last.pre.watered_at < DeathSeconds) =>
          \/ Target.stage = 5
          \/ Target.score < STAGE_CUTOFFS[Target.stage + 2]

\* One refresh has taken a plant over two cutoffs.
C24_Witness ==
    /\ Refreshed
    /\ Target.stage >= last.pre.stage + 2
    /\ Target.score < STAGE_CUTOFFS[Target.stage + 2]

----------------------------------------------------------------------------
(* Properties of a new plant *)

\* A record whose watered_at is still the default of its creation.
NeverWatered(p) == p.watered_at = p.created_at - 86400

\* C25: a new plant that is never watered keeps score 0 and stage 0 at every
\* refresh; a refresh earlier than 4 days after its creation does not mark it
\* dead, and a refresh at or after 4 days does.
C25_UnwateredNewPlant ==
    /\ \A i \in Rows :
          NeverWatered(plants[i]) =>
              /\ plants[i].score = 0
              /\ plants[i].stage = 0
              /\ (plants[i].dead /\ plants[i].user_active # None)
                    => plants[i].updated_at >= plants[i].created_at + 4 * 86400
    /\ (Refreshed /\ NeverWatered(last.pre)) =>
          IF now >= last.pre.created_at + 4 * 86400
          THEN Target.dead
          ELSE Target.dead = last.pre.dead

\* The refresh exactly 4 days after its creation finds a new plant dead that
\* was alive until then.
C25_Witness ==
    /\ Refreshed
    /\ NeverWatered(last.pre)
    /\ now = last.pre.created_at + 4 * 86400
    /\ ~last.pre.dead
    /\ Target.dead
    /\ Target.score = 0

\* A refresh 12 hours after its creation leaves a new plant alive at score 0.
C25_WitnessAlive ==
    /\ Refreshed
    /\ NeverWatered(last.pre)
    /\ now = last.pre.created_at + 12 * 3600
    /\ ~Target.dead
    /\ Target.score = 0

----------------------------------------------------------------------------
(* Properties of concurrent load, refresh and save *)

Saver == last.op = "save"

\* The largest score the stored plant can have when it was last refreshed at
\* clock t: what the whole time from the start to t is worth, truncated once.
WholeGain(generation, t) ==
    (HalfTicks(RacePlant(generation), t) * (generation + 4)) \div 10

C26_WitnessInOrder ==
    /\ Saver
    /\ last.result = "view"
    /\ plants[1].generation = 2
    /\ session["sweep"].pc = "idle"
    /\ session["sweep"].from = last.pre
    /\ session["sweep"].rec.updated_at = 14
    /\ plants[1].updated_at = 21
    /\ session["sweep"].rec.score = last.pre.score + 16
    /\ plants[1].score = last.pre.score + 25

----------------------------------------------------------------------------
(* Properties of refreshing in several steps *)

\* C27: refreshing in several steps never credits more than refreshing once.
\* With no water(), fertilize() or death in between, the score gained by
\* the refreshes made so far is at most the score one refresh() at the clock
\* of the last of them gains from the starting state, and equals it for
\* generation 1 without fertilizer bonus.
C27_SplitNeverCreditsMore ==
    LET p == plants[1]
        start == SplitPlant(p.generation, p.fertilized_at)
        once == RefreshGain(start, p.updated_at)
    IN  /\ p.score - start.score <= once
        /\ (p.generation = 1 /\ RefreshBonusTicks(start, p.updated_at) = 0)
               => p.score - start.score = once

----------------------------------------------------------------------------
(* Properties of death *)

\* C28: death is absorbing.  Once a refresh() has run on a record 5 days or
\* more after its last watering, the record is dead in every later state
\* and its watered_at never changes again, whatever refresh(), water(),
\* fertilize(), shake(), pick_petal() or harvest() is called on it.
C28_DeathIsAbsorbing ==
    [][\A i \in starved :
          /\ plants[i].dead
          /\ plants'[i].dead
          /\ plants'[i].watered_at = plants[i].watered_at]_vars

\* The owner waters a plant that a refresh found 5 days dry: the call is
\* rejected and the row stays as it was.
C28_Witness ==
    /\ Watered
    /\ last.pid \in starved
    /\ last.actor = None
    /\ now - last.pre.watered_at >= DeathDays * SecondsPerDay
    /\ last.result = "dead"
    /\ plants[last.pid] = last.pre
    /\ plants[last.pid].dead

----------------------------------------------------------------------------
(* Properties of the time between waterings *)

\* The first second at which the supply of a watering reads below 100.
DampSeconds == SecondsPerDay \div 100

\* C29: a water() less than 864 seconds after the plant's last watering is
\* rejected and changes nothing, the supply still reading 100; the owner's
\* water() on a living plant from 864 seconds to less than 5 days after the
\* last watering succeeds; so two successful waterings of one plant are at
\* least 864 seconds apart.
C29_WateringsApart ==
    Watered =>
        LET e == now - last.pre.watered_at
        IN  /\ (0 <= e /\ e < DampSeconds) =>
                   /\ last.result \in {"damp", "dead"}
                   /\ ~last.pre.dead => SupplyPercent(last.pre, now) = 100
                   /\ plants[last.pid] = last.pre
                   /\ visit_at = last.visit_at
            /\ (/\ last.actor = None
                /\ ~last.pre.dead
                /\ DampSeconds <= e
                /\ e < DeathDays * SecondsPerDay) =>
                   /\ last.result = "ok"
                   /\ plants[last.pid].watered_at = now
            /\ last.result = "ok" => e >= DampSeconds

\* A watering 45 seconds after a successful one of the same run finds the
\* soil damp.
C29_Witness ==
    /\ Watered
    /\ last.pre.watered_at > 0
    /\ now - last.pre.watered_at = 45
    /\ last.result = "damp"
    /\ plants[last.pid] = last.pre

\* The owner's watering exactly 864 seconds after a visitor's succeeds.
C29_WitnessAtBoundary ==
    /\ Watered
    /\ last.actor = None
    /\ last.pre.watered_by # None
    /\ now - last.pre.watered_at = DampSeconds
    /\ last.result = "ok"
    /\ plants[last.pid].watered_at = now

----------------------------------------------------------------------------
(* Properties of a shake that runs beside another writer *)

\* The highest score the plant can have reached by now, in the stored row
\* or in any copy: its first score and all the time since, truncated once.
BestScore ==
    LET g == plants[1].generation
    IN  RacePlant(g).score + WholeGain(g, now)

\* C30: when a shake request (load, refresh, shake, save) runs beside the
\* sweep's load, refresh and save of the same row, the last save winning,
\* the coins granted for the plant never exceed one per 3600 points of its
\* score: no save brings shaken_at back so that score is paid twice.  The
\* score is taken at its highest possible value, so that a stored score
\* that a late save put back does not count against the property.
C30_CoinsWithinScore ==
    /\ plants[1].score <= BestScore
    /\ inv[1].coin <= BestScore \div ShakeMultiplier

====
